---- MODULE Spec2Model ----
(***************************************************************************)
(* Model of battery_monitor.py: the monitoring loop of the battery         *)
(* telemetry monitor (INA219 power sensor, AHT25 environmental sensor,     *)
(* 16x2 character LCD), its derived metrics, its page formatting and its   *)
(* two exception handlers.                                                 *)
(*                                                                         *)
(* Python floats are modelled as exact rationals [n, d] in lowest terms    *)
(* with d > 0, so that arithmetic, comparison and formatting are computed  *)
(* on the mathematical values of the readings.  Binary floating point     *)
(* agrees with these values up to its rounding error: at 10.8 V, for       *)
(* instance, the script computes soc = 50.00000000000002 where the model   *)
(* has 50, so int(dod) is shown as 49 by the script and 50 by the model.   *)
(* The sensor inputs avoid decimal rounding ties in the formatted values.  *)
(***************************************************************************)
EXTENDS Integers, Sequences, FiniteSets, TLC

VARIABLES
    pc,         \* position of the script: the line about to execute, or "exit"
    cal,        \* the calibration globals MIN_VOLTAGE / MAX_VOLTAGE
    page,       \* global page counter
    bus_v, current_a, impedance, soc, dod, temp, hum, status,  \* loop variables
    reads,      \* sensor reads of the current cycle, in order, with their values
    lcdOps,     \* display operations issued in the current cycle, in order
    final,      \* display operations issued by an exception handler
    fault,      \* the exception that left the try body ("none" while in it)
    exit,       \* "running", or how the process ended
    cycles      \* number of page advances performed so far

vars == <<pc, cal, page, bus_v, current_a, impedance, soc, dod, temp, hum,
          status, reads, lcdOps, final, fault, exit, cycles>>

(***************************************************************************)
(* Bounds of the model.                                                    *)
(***************************************************************************)
MaxCycles == 5

(***************************************************************************)
(* Float arithmetic as exact rationals.                                    *)
(***************************************************************************)
Abs(x) == IF x < 0 THEN -x ELSE x

RECURSIVE GCD(_, _)
GCD(a, b) == IF b = 0 THEN a ELSE GCD(b, a % b)

\* The fraction n / d in lowest terms with a positive denominator.  A
\* function, so that its arguments are evaluated once, before it is applied.
RatOf[n \in Int, d \in Int] ==
    LET g == GCD(Abs(n), Abs(d))
        s == IF d < 0 THEN -1 ELSE 1
    IN  [n |-> (s * n) \div g, d |-> (s * d) \div g]

Rat(n, d) == RatOf[n, d]

FSub(a, b) == Rat(a.n * b.d - b.n * a.d, a.d * b.d)
FMul(a, b) == Rat(a.n * b.n, a.d * b.d)
FDiv(a, b) == Rat(a.n * b.d, a.d * b.n)
FLess(a, b) == a.n * b.d < b.n * a.d
FGeq(a, b) == ~FLess(a, b)
FGreater(a, b) == FLess(b, a)

\* Python's builtin min(a, b) / max(a, b): the first argument wins a tie.
PyMin(a, b) == IF FLess(b, a) THEN b ELSE a
PyMax(a, b) == IF FGreater(b, a) THEN b ELSE a

\* int(x): truncation toward zero.
PyInt(x) == IF x.n >= 0 THEN x.n \div x.d ELSE -(Abs(x.n) \div x.d)

(***************************************************************************)
(* Configuration constants (lines 9-14) and the display geometry (line 20).*)
(***************************************************************************)
VOLTAGE_HEALTHY == Rat(115, 10)
VOLTAGE_MODERATE == Rat(105, 10)
MAX_VOLTAGE == Rat(126, 10)
MIN_VOLTAGE == Rat(90, 10)
LCD_COLS == 16
LCD_ROWS == 2

(***************************************************************************)
(* String formatting.                                                      *)
(***************************************************************************)
Digit(i) == <<"0", "1", "2", "3", "4", "5", "6", "7", "8", "9">>[i + 1]

RECURSIVE Digits(_)
Digits(k) == IF k < 10 THEN Digit(k) ELSE Digits(k \div 10) \o Digit(k % 10)

RECURSIVE Pow10(_)
Pow10(p) == IF p = 0 THEN 1 ELSE 10 * Pow10(p - 1)

RECURSIVE ZeroFill(_, _)
ZeroFill(s, w) == IF Len(s) >= w THEN s ELSE ZeroFill("0" \o s, w)

RECURSIVE LeftJustify(_, _)
LeftJustify(s, w) == IF Len(s) >= w THEN s ELSE LeftJustify(s \o " ", w)

\* format(x, '.<p>f'): round to p decimals (half to even), sign kept.
FormatF(x, p) ==
    LET a  == Abs(x.n) * Pow10(p)
        q  == a \div x.d
        r  == a % x.d
        m  == IF 2 * r > x.d \/ (2 * r = x.d /\ q % 2 = 1) THEN q + 1 ELSE q
        ip == m \div Pow10(p)
        fp == m % Pow10(p)
    IN  (IF x.n < 0 THEN "-" ELSE "")
        \o Digits(ip)
        \o (IF p = 0 THEN "" ELSE "." \o ZeroFill(Digits(fp), p))

\* str(int): used by f'{int(soc)}'.
FormatInt(k) == (IF k < 0 THEN "-" ELSE "") \o Digits(Abs(k))

(***************************************************************************)
(* Metrics: the pure computations of the loop body.                        *)
(***************************************************************************)
\* Variant: the healthy threshold compared strictly.
get_battery_status_strict(voltage) ==
    IF FGreater(voltage, VOLTAGE_HEALTHY) THEN "Healthy"
    ELSE IF FGeq(voltage, VOLTAGE_MODERATE) THEN "Moderate"
    ELSE "Critical"

get_battery_status(voltage) ==
    IF FGeq(voltage, VOLTAGE_HEALTHY) THEN "Healthy"
    ELSE IF FGeq(voltage, VOLTAGE_MODERATE) THEN "Moderate"
    ELSE "Critical"

\* Variant: the milliamp reading used as if it were amps.
ToAmpsUnconverted(milliamps) == milliamps

\* line 39: ina219.current / 1000.0
ToAmps(milliamps) == FDiv(milliamps, Rat(1000, 1))

NOISE_FLOOR == Rat(1, 10000)
ZERO == Rat(0, 1)
HUNDRED == Rat(100, 1)

\* Variant: the guard tests for a positive current instead of the noise floor.
ComputeImpedanceNoFloor(v, amps) ==
    IF FGreater(amps, ZERO) THEN FDiv(v, amps) ELSE ZERO

\* line 40
ComputeImpedance(v, amps) ==
    IF FGreater(amps, NOISE_FLOOR) THEN FDiv(v, amps) ELSE ZERO

\* Variant: the interpolation without the clamp.
ComputeSocUnclamped(v, lo, hi) ==
    FMul(FDiv(FSub(v, lo), FSub(hi, lo)), HUNDRED)

\* Variant: the clamped fraction, not scaled to percent.
ComputeSocFraction(v, lo, hi) ==
    PyMax(ZERO, PyMin(HUNDRED, FDiv(FSub(v, lo), FSub(hi, lo))))

\* line 41; the caller has checked that hi - lo is not zero
ComputeSoc(v, lo, hi) ==
    PyMax(ZERO, PyMin(HUNDRED, FMul(FDiv(FSub(v, lo), FSub(hi, lo)), HUNDRED)))

\* line 42
ComputeDod(s) == FSub(HUNDRED, s)

\* Variant: the counter stepped backwards.
NextPageBack(p) == (p + 3) % 4

\* Variant: the counter advanced by two.
NextPageSkip(p) == (p + 2) % 4

\* Variant: the counter advanced without the wrap.
NextPageNoWrap(p) == p + 1

\* line 66
NextPage(p) == (p + 1) % 4

(***************************************************************************)
(* Page formatting: the strings handed to lcd.write_string.                *)
(***************************************************************************)
Line1(p, st) ==
    IF p \in {0, 1} THEN "Battery:" \o LeftJustify(st, 7) ELSE "SVM:OFF"

\* c is the value of ina219.current read while formatting page 0
Line2(p, v, c, t, h, s, d, z) ==
    CASE p = 0 -> "V:" \o FormatF(v, 2) \o " I:" \o FormatF(c, 0) \o "mA"
      [] p = 1 -> "T:" \o FormatF(t, 1) \o " H:" \o FormatF(h, 0) \o "%"
      [] p = 2 -> "SOC:" \o FormatInt(PyInt(s)) \o "% SOH:OFF"
      [] p = 3 -> "DOD:" \o FormatInt(PyInt(d)) \o "% Z:" \o FormatF(z, 1) \o "R"

(***************************************************************************)
(* Values the sensor drivers may return.                                   *)
(***************************************************************************)
BusVoltages ==
    { Rat(85, 10), Rat(90, 10), Rat(105, 10), Rat(108, 10),
      Rat(115, 10), Rat(120, 10), Rat(126, 10), Rat(130, 10) }

\* milliamps; the INA219 reports signed current in steps of 0.1 mA
Currents ==
    { Rat(-1000, 1), Rat(0, 1), Rat(1, 10), Rat(2, 10),
      Rat(10, 1), Rat(500, 1), Rat(1000, 1) }

Temperatures == { Rat(250, 10), Rat(-105, 10) }
Humidities == { Rat(400, 10), Rat(1000, 10) }

\* Calibration pairs for the specification that varies the constants.
Calibrations ==
    { [lo |-> MIN_VOLTAGE, hi |-> MAX_VOLTAGE],
      [lo |-> MIN_VOLTAGE, hi |-> MIN_VOLTAGE],
      [lo |-> MAX_VOLTAGE, hi |-> MIN_VOLTAGE] }

(***************************************************************************)
(* Control flow.                                                           *)
(***************************************************************************)
SensorPcs == {"read_bus_v", "read_current", "read_temp", "read_hum"}
DisplayPcs == {"clear", "line1", "crlf", "line2"}
TryPcs ==
    SensorPcs \cup DisplayPcs
        \cup {"impedance", "soc", "dod", "status", "advance", "sleep"}
StopPcs == {"stop_clear", "stop_write", "stop_print"}
ErrPcs == {"err_clear", "err_write", "err_print"}
HandlerPcs == StopPcs \cup ErrPcs

Op(name, text) == [op |-> name, text |-> text, page |-> page]
Read(sensor, value) == [sensor |-> sensor, value |-> value]

\* Variant: every exception, the interrupt included, taken by the
\* "except Exception" clause.
RaiseBroad(kind) ==
    /\ fault' = kind
    /\ pc' = "err_clear"

\* An exception raised inside the try body selects its except clause.
Raise(kind) ==
    /\ fault' = kind
    /\ pc' = IF kind = "KeyboardInterrupt" THEN "stop_clear" ELSE "err_clear"

\* Variant: an exception raised inside an except clause caught by the
\* sibling clause of the same try statement.
PropagateCaught(kind) ==
    /\ pc' = IF kind = "KeyboardInterrupt" THEN "stop_clear" ELSE "err_clear"
    /\ UNCHANGED exit

\* An exception raised inside an except clause is not caught by its siblings:
\* the interpreter prints a traceback and the process ends abnormally.
Propagate(kind) ==
    /\ pc' = "exit"
    /\ exit' = IF kind = "KeyboardInterrupt" THEN "uncaught_interrupt"
               ELSE "uncaught_exception"

ExitStatus(e) ==
    CASE e = "ok" -> 0
      [] e = "uncaught_exception" -> 1
      [] e = "uncaught_interrupt" -> 130

Init ==
    /\ pc = "read_bus_v"
    /\ cal = [lo |-> MIN_VOLTAGE, hi |-> MAX_VOLTAGE]
    /\ page = 0
    /\ bus_v = ZERO /\ current_a = ZERO /\ impedance = ZERO
    /\ soc = ZERO /\ dod = ZERO /\ temp = ZERO /\ hum = ZERO
    /\ status = ""
    /\ reads = <<>>
    /\ lcdOps = <<>>
    /\ final = <<>>
    /\ fault = "none"
    /\ exit = "running"
    /\ cycles = 0

\* The same program with the calibration constants edited.
InitCal ==
    /\ cal \in Calibrations
    /\ pc = "read_bus_v"
    /\ page = 0
    /\ bus_v = ZERO /\ current_a = ZERO /\ impedance = ZERO
    /\ soc = ZERO /\ dod = ZERO /\ temp = ZERO /\ hum = ZERO
    /\ status = ""
    /\ reads = <<>>
    /\ lcdOps = <<>>
    /\ final = <<>>
    /\ fault = "none"
    /\ exit = "running"
    /\ cycles = 0

(***************************************************************************)
(* The loop body, one action per line of the script.                       *)
(***************************************************************************)
Locals == <<bus_v, current_a, impedance, soc, dod, temp, hum, status>>

\* line 38
ReadBusVoltage ==
    /\ pc = "read_bus_v"
    /\ \E v \in BusVoltages :
         /\ bus_v' = v
         /\ reads' = Append(reads, Read("bus_voltage", v))
    /\ pc' = "read_current"
    /\ UNCHANGED <<cal, page, current_a, impedance, soc, dod, temp, hum,
                   status, lcdOps, final, fault, exit, cycles>>

\* line 39
ReadCurrent ==
    /\ pc = "read_current"
    /\ \E c \in Currents :
         /\ current_a' = ToAmps(c)
         /\ reads' = Append(reads, Read("current", c))
    /\ pc' = "impedance"
    /\ UNCHANGED <<cal, page, bus_v, impedance, soc, dod, temp, hum,
                   status, lcdOps, final, fault, exit, cycles>>

\* line 40
Impedance ==
    /\ pc = "impedance"
    /\ impedance' = ComputeImpedance(bus_v, current_a)
    /\ pc' = "soc"
    /\ UNCHANGED <<cal, page, bus_v, current_a, soc, dod, temp, hum,
                   status, reads, lcdOps, final, fault, exit, cycles>>

\* line 41: float division by zero raises ZeroDivisionError
Soc ==
    /\ pc = "soc"
    /\ IF FSub(cal.hi, cal.lo) = ZERO
       THEN /\ Raise("ZeroDivisionError")
            /\ UNCHANGED soc
       ELSE /\ soc' = ComputeSoc(bus_v, cal.lo, cal.hi)
            /\ pc' = "dod"
            /\ UNCHANGED fault
    /\ UNCHANGED <<cal, page, bus_v, current_a, impedance, dod, temp, hum,
                   status, reads, lcdOps, final, exit, cycles>>

\* line 42
Dod ==
    /\ pc = "dod"
    /\ dod' = ComputeDod(soc)
    /\ pc' = "read_temp"
    /\ UNCHANGED <<cal, page, bus_v, current_a, impedance, soc, temp, hum,
                   status, reads, lcdOps, final, fault, exit, cycles>>

\* line 43
ReadTemperature ==
    /\ pc = "read_temp"
    /\ \E t \in Temperatures :
         /\ temp' = t
         /\ reads' = Append(reads, Read("temperature", t))
    /\ pc' = "read_hum"
    /\ UNCHANGED <<cal, page, bus_v, current_a, impedance, soc, dod, hum,
                   status, lcdOps, final, fault, exit, cycles>>

\* line 44
ReadHumidity ==
    /\ pc = "read_hum"
    /\ \E h \in Humidities :
         /\ hum' = h
         /\ reads' = Append(reads, Read("relative_humidity", h))
    /\ pc' = "status"
    /\ UNCHANGED <<cal, page, bus_v, current_a, impedance, soc, dod, temp,
                   status, lcdOps, final, fault, exit, cycles>>

\* line 45
Status ==
    /\ pc = "status"
    /\ status' = get_battery_status(bus_v)
    /\ pc' = "clear"
    /\ UNCHANGED <<cal, page, bus_v, current_a, impedance, soc, dod, temp,
                   hum, reads, lcdOps, final, fault, exit, cycles>>

\* line 48
Clear ==
    /\ pc = "clear"
    /\ lcdOps' = Append(lcdOps, Op("clear", ""))
    /\ pc' = "line1"
    /\ UNCHANGED <<cal, page, Locals, reads, final, fault, exit, cycles>>

\* lines 49-50, 53-54, 57-58, 61-62: dispatch on page, write the first line
WriteLine1 ==
    /\ pc = "line1"
    /\ IF page \in 0..3
       THEN /\ lcdOps' = Append(lcdOps, Op("write_string", Line1(page, status)))
            /\ pc' = "crlf"
       ELSE /\ pc' = "advance"      \* no branch of the if/elif chain matches
            /\ UNCHANGED lcdOps
    /\ UNCHANGED <<cal, page, Locals, reads, final, fault, exit, cycles>>

\* Variant: the display cleared where the line break belongs.
CrlfAsClear ==
    /\ pc = "crlf"
    /\ lcdOps' = Append(lcdOps, Op("clear", ""))
    /\ pc' = "line2"
    /\ UNCHANGED <<cal, page, Locals, reads, final, fault, exit, cycles>>

\* lines 51, 55, 59, 63
Crlf ==
    /\ pc = "crlf"
    /\ lcdOps' = Append(lcdOps, Op("crlf", ""))
    /\ pc' = "line2"
    /\ UNCHANGED <<cal, page, Locals, reads, final, fault, exit, cycles>>

\* lines 52, 56, 60, 64: page 0 reads ina219.current again inside the f-string
WriteLine2 ==
    /\ pc = "line2"
    /\ \E c \in (IF page = 0 THEN Currents ELSE {ZERO}) :
         /\ lcdOps' = Append(lcdOps,
                        Op("write_string",
                           Line2(page, bus_v, c, temp, hum, soc, dod, impedance)))
         /\ reads' = IF page = 0 THEN Append(reads, Read("current", c))
                     ELSE reads
    /\ pc' = "advance"
    /\ UNCHANGED <<cal, page, Locals, final, fault, exit, cycles>>

\* line 66
Advance ==
    /\ pc = "advance"
    /\ page' = NextPage(page)
    /\ cycles' = cycles + 1
    /\ pc' = "sleep"
    /\ UNCHANGED <<cal, Locals, reads, lcdOps, final, fault, exit>>

\* line 67, then back to line 36; the per-cycle logs start afresh
Sleep ==
    /\ pc = "sleep"
    /\ cycles < MaxCycles
    /\ pc' = "read_bus_v"
    /\ reads' = <<>>
    /\ lcdOps' = <<>>
    /\ UNCHANGED <<cal, page, Locals, final, fault, exit, cycles>>

(***************************************************************************)
(* Failures of the collaborators and the user interrupt.                   *)
(***************************************************************************)
\* A sensor property raises (lines 38, 39, 43, 44 and the re-read of line 52).
SensorFail ==
    /\ \/ pc \in SensorPcs
       \/ pc = "line2" /\ page = 0
    /\ Raise("SensorReadError")
    /\ UNCHANGED <<cal, page, Locals, reads, lcdOps, final, exit, cycles>>

\* A display call of the loop body raises (lines 48-64).
DisplayFail ==
    /\ pc \in DisplayPcs
    /\ Raise("DisplayWriteError")
    /\ UNCHANGED <<cal, page, Locals, reads, lcdOps, final, exit, cycles>>

\* Ctrl-C while the try body runs (any line, the sleep included).
Interrupt ==
    /\ pc \in TryPcs
    /\ Raise("KeyboardInterrupt")
    /\ UNCHANGED <<cal, page, Locals, reads, lcdOps, final, exit, cycles>>

(***************************************************************************)
(* The except clauses.                                                     *)
(***************************************************************************)
\* line 70
StopClear ==
    /\ pc = "stop_clear"
    /\ final' = Append(final, Op("clear", ""))
    /\ pc' = "stop_write"
    /\ UNCHANGED <<cal, page, Locals, reads, lcdOps, fault, exit, cycles>>

\* line 71
StopWrite ==
    /\ pc = "stop_write"
    /\ final' = Append(final, Op("write_string", "System Stopped"))
    /\ pc' = "stop_print"
    /\ UNCHANGED <<cal, page, Locals, reads, lcdOps, fault, exit, cycles>>

\* line 72, then the end of the script
StopPrint ==
    /\ pc = "stop_print"
    /\ pc' = "exit"
    /\ exit' = "ok"
    /\ UNCHANGED <<cal, page, Locals, reads, lcdOps, final, fault, cycles>>

\* line 74
ErrClear ==
    /\ pc = "err_clear"
    /\ final' = Append(final, Op("clear", ""))
    /\ pc' = "err_write"
    /\ UNCHANGED <<cal, page, Locals, reads, lcdOps, fault, exit, cycles>>

\* line 75
ErrWrite ==
    /\ pc = "err_write"
    /\ final' = Append(final, Op("write_string", "Error Occurred"))
    /\ pc' = "err_print"
    /\ UNCHANGED <<cal, page, Locals, reads, lcdOps, fault, exit, cycles>>

\* line 76, then the end of the script: nothing sets a non-zero status
ErrPrint ==
    /\ pc = "err_print"
    /\ pc' = "exit"
    /\ exit' = "ok"
    /\ UNCHANGED <<cal, page, Locals, reads, lcdOps, final, fault, cycles>>

\* A display call inside an except clause raises (lines 70, 71, 74, 75).
HandlerDisplayFail ==
    /\ pc \in {"stop_clear", "stop_write", "err_clear", "err_write"}
    /\ Propagate("DisplayWriteError")
    /\ UNCHANGED <<cal, page, Locals, reads, lcdOps, final, fault, cycles>>

\* Ctrl-C while an except clause runs (lines 70-72, 74-76).
HandlerInterrupt ==
    /\ pc \in HandlerPcs
    /\ Propagate("KeyboardInterrupt")
    /\ UNCHANGED <<cal, page, Locals, reads, lcdOps, final, fault, cycles>>

Next ==
    \/ ReadBusVoltage \/ ReadCurrent \/ Impedance \/ Soc \/ Dod
    \/ ReadTemperature \/ ReadHumidity \/ Status
    \/ Clear \/ WriteLine1 \/ Crlf \/ WriteLine2 \/ Advance \/ Sleep
    \/ SensorFail \/ DisplayFail \/ Interrupt
    \/ StopClear \/ StopWrite \/ StopPrint
    \/ ErrClear \/ ErrWrite \/ ErrPrint
    \/ HandlerDisplayFail \/ HandlerInterrupt

Spec == Init /\ [][Next]_vars

\* The program started with each of the calibration pairs.
SpecCal == InitCal /\ [][Next]_vars

(***************************************************************************)
(* The undisturbed run: no collaborator call raises and no interrupt       *)
(* arrives, so "while True" goes on for ever.  The loop steps are those    *)
(* above; the cycle counter, which only records history, is left alone so  *)
(* that the run is not cut at MaxCycles.  The script is one sequential     *)
(* thread: a step that can run does run, which is weak fairness of the     *)
(* loop steps.                                                             *)
(***************************************************************************)
\* line 66
AdvanceRun ==
    /\ pc = "advance"
    /\ page' = NextPage(page)
    /\ pc' = "sleep"
    /\ UNCHANGED <<cal, Locals, reads, lcdOps, final, fault, exit, cycles>>

\* line 67, then back to line 36
SleepRun ==
    /\ pc = "sleep"
    /\ pc' = "read_bus_v"
    /\ reads' = <<>>
    /\ lcdOps' = <<>>
    /\ UNCHANGED <<cal, page, Locals, final, fault, exit, cycles>>

NextRun ==
    \/ ReadBusVoltage \/ ReadCurrent \/ Impedance \/ Soc \/ Dod
    \/ ReadTemperature \/ ReadHumidity \/ Status
    \/ Clear \/ WriteLine1 \/ Crlf \/ WriteLine2 \/ AdvanceRun \/ SleepRun

SpecRun == Init /\ [][NextRun]_vars /\ WF_vars(NextRun)

(***************************************************************************)
(* Derived observations used by the properties.                            *)
(***************************************************************************)
Texts(ops) == { i \in DOMAIN ops : ops[i].op = "write_string" }
Wrote(ops, msg) == { i \in Texts(ops) : ops[i].text = msg }
ErrWrites == Cardinality(Wrote(final, "Error Occurred"))
StopWrites == Cardinality(Wrote(final, "System Stopped"))

\* positions of the loop body at which the named value is this cycle's
AfterImpedance ==
    pc \in {"soc", "dod", "read_temp", "read_hum", "status",
            "clear", "line1", "crlf", "line2", "advance", "sleep"}
AfterSoc == AfterImpedance /\ pc # "soc"
AfterDod == AfterSoc /\ pc # "dod"
AfterStatus == pc \in {"clear", "line1", "crlf", "line2", "advance", "sleep"}

\* v compared with the decimal number k / 10, on the integers
TenthsGeq(v, k) == v.n * 10 >= k * v.d
TenthsLess(v, k) == v.n * 10 < k * v.d
FLeq(a, b) == a.n * b.d <= b.n * a.d

(***************************************************************************)
(* C1: get_battery_status returns exactly one status for every bus         *)
(* voltage: Healthy when v >= 11.5, Moderate when 10.5 <= v < 11.5,        *)
(* Critical when v < 10.5; a voltage equal to a threshold is in the higher *)
(* band.                                                                   *)
(***************************************************************************)
C1_StatusBands ==
    AfterStatus =>
        /\ status \in {"Healthy", "Moderate", "Critical"}
        /\ (status = "Healthy") <=> TenthsGeq(bus_v, 115)
        /\ (status = "Moderate") <=>
               (TenthsGeq(bus_v, 105) /\ TenthsLess(bus_v, 115))
        /\ (status = "Critical") <=> TenthsLess(bus_v, 105)

C1_Witness ==
    /\ pc = "clear"
    /\ bus_v = Rat(115, 10)
    /\ status = "Healthy"

(***************************************************************************)
(* C2: in every cycle, for every bus voltage (below MIN_VOLTAGE and above  *)
(* MAX_VOLTAGE included), soc and dod lie in [0, 100] and soc + dod = 100. *)
(***************************************************************************)
C2_SocDodRange ==
    AfterDod =>
        /\ soc.n >= 0 /\ soc.n <= 100 * soc.d
        /\ dod.n >= 0 /\ dod.n <= 100 * dod.d
        /\ soc.n * dod.d + dod.n * soc.d = 100 * soc.d * dod.d

C2_Witness ==
    /\ pc = "read_temp"
    /\ FLess(bus_v, MIN_VOLTAGE)
    /\ soc = ZERO
    /\ dod = HUNDRED

(***************************************************************************)
(* C3: the impedance is 0 whenever the current in amps is <= 0.0001 (zero  *)
(* and negative current included), equals v / i whenever i > 0.0001, and   *)
(* is never negative.                                                      *)
(***************************************************************************)
C3_Impedance ==
    AfterImpedance =>
        /\ current_a.n * 10000 <= current_a.d => impedance = ZERO
        /\ current_a.n * 10000 > current_a.d =>
               impedance.n * current_a.n * bus_v.d
                   = bus_v.n * impedance.d * current_a.d
        /\ impedance.n >= 0

C3_Witness ==
    /\ pc = "soc"
    /\ current_a = NOISE_FLOOR
    /\ FGreater(bus_v, ZERO)
    /\ impedance = ZERO

(***************************************************************************)
(* C4: starting from page 0, the k-th successful cycle (k from 0) shows    *)
(* page k mod 4, so the pages shown are 0,1,2,3,0,1,2,3,... and after      *)
(* every 4 successful cycles the page counter is back at 0.                *)
(***************************************************************************)
C4_PageRotation ==
    /\ page = cycles % 4
    /\ pc \in TryPcs =>
         LET k == IF pc = "sleep" THEN cycles - 1 ELSE cycles
         IN  /\ \A i \in DOMAIN lcdOps : lcdOps[i].page = k % 4
             /\ Len(lcdOps) >= 2 => lcdOps[2].text = Line1(k % 4, status)

C4_Witness ==
    /\ pc = "sleep"
    /\ cycles = 5
    /\ page = 1
    /\ lcdOps[2].page = 0

(***************************************************************************)
(* C5: when a sensor read fails during a cycle, "Error Occurred" is        *)
(* written exactly once, no further cycle runs, and the process exits      *)
(* with a failure status.  Stated for the runs in which the handler's own  *)
(* display calls succeed and no interrupt cuts the handler short.          *)
(***************************************************************************)
C5_SensorFailureExit ==
    (/\ fault = "SensorReadError"
     /\ pc = "exit"
     /\ Len(final) = 2
     /\ exit # "uncaught_interrupt") =>
        /\ ErrWrites = 1
        /\ ExitStatus(exit) # 0

(***************************************************************************)
(* C6 as stated: an interrupt arriving while the loop runs causes exactly  *)
(* one final write of "System Stopped", never "Error Occurred", and a      *)
(* clean exit with normal status.                                          *)
(***************************************************************************)
C6_AlwaysCleanStop ==
    (fault = "KeyboardInterrupt" /\ pc = "exit") =>
        /\ StopWrites = 1
        /\ ErrWrites = 0
        /\ ExitStatus(exit) = 0

(***************************************************************************)
(* C6 as amended: an interrupt arriving while the try body runs enters     *)
(* the KeyboardInterrupt clause; from then on no sensor is read, no page   *)
(* is written and the page counter does not move, "Error Occurred" is      *)
(* never written, and the script ends with status 0 only after exactly     *)
(* the two display calls clear, write "System Stopped".  (A display call   *)
(* that raises inside the clause, or a second interrupt there, propagates  *)
(* uncaught and ends the process abnormally.)                              *)
(***************************************************************************)
C6_InterruptHandled ==
    /\ [](fault = "KeyboardInterrupt" =>
            /\ pc \in StopPcs \cup {"exit"}
            /\ ErrWrites = 0
            /\ StopWrites <= 1
            /\ exit = "ok" =>
                 /\ Len(final) = 2
                 /\ final[1].op = "clear"
                 /\ final[2].op = "write_string"
                 /\ final[2].text = "System Stopped")
    /\ [][fault = "KeyboardInterrupt" =>
            UNCHANGED <<page, cycles, reads, lcdOps, fault>>]_vars

C6_Witness ==
    /\ fault = "KeyboardInterrupt"
    /\ exit = "ok"
    /\ StopWrites = 1
    /\ Len(lcdOps) = 2

(***************************************************************************)
(* C7: with MAX_VOLTAGE <= MIN_VOLTAGE the monitoring loop never starts:   *)
(* no sensor is read, no SOC is computed, no page is written.              *)
(***************************************************************************)
C7_BadCalibrationNeverRuns ==
    FLeq(cal.hi, cal.lo) =>
        /\ reads = <<>>
        /\ lcdOps = <<>>
        /\ pc \notin {"dod", "read_temp", "read_hum", "status"}

(***************************************************************************)
(* C8: for every page and every sensor sample the cycle writes exactly     *)
(* two lines, each at most 16 characters long.                             *)
(***************************************************************************)
C8_LinesFit ==
    /\ \A i \in Texts(lcdOps) : Len(lcdOps[i].text) <= LCD_COLS
    /\ pc \in {"advance", "sleep"} => Cardinality(Texts(lcdOps)) = LCD_ROWS

(***************************************************************************)
(* C9: with MIN_VOLTAGE = 9.0 and MAX_VOLTAGE = 12.6 the SOC of 9.0 V is   *)
(* 0, of 12.6 V is 100, of 10.8 V is 50; between the bounds it is          *)
(* (v - MIN) / (MAX - MIN) * 100, and it is non-decreasing in v.           *)
(***************************************************************************)
C9_SocInterpolation ==
    AfterSoc =>
        /\ bus_v = Rat(90, 10) => soc = ZERO
        /\ bus_v = Rat(126, 10) => soc = HUNDRED
        /\ bus_v = Rat(108, 10) => soc = Rat(50, 1)
        /\ (TenthsGeq(bus_v, 90) /\ bus_v.n * 10 <= 126 * bus_v.d) =>
               \* soc * (12.6 - 9.0) = (v - 9.0) * 100, times 10 * d's
               soc.n * 36 * bus_v.d = (bus_v.n * 10 - 90 * bus_v.d) * 100 * soc.d
        /\ \A w \in BusVoltages :
               FLess(w, bus_v) => FLeq(ComputeSoc(w, cal.lo, cal.hi), soc)

C9_Witness ==
    /\ pc = "dod"
    /\ bus_v = Rat(108, 10)
    /\ soc = Rat(50, 1)

(***************************************************************************)
(* C10: impedance uses the current converted to amps while page 0 shows    *)
(* the milliamp reading itself: with the sensors returning 12.0 V and      *)
(* 500 mA the cycle yields Healthy, soc about 83.3, dod about 16.7,        *)
(* impedance 24.0 ohms, and page 0 shows "Battery:Healthy" and             *)
(* "V:12.00 I:500mA".                                                      *)
(***************************************************************************)
C10_Scenario ==
    (/\ pc = "advance"
     /\ page = 0
     /\ reads[1].value = Rat(12, 1)
     /\ reads[2].value = Rat(500, 1)
     /\ reads[5].value = Rat(500, 1)) =>
        /\ status = "Healthy"
        /\ FormatF(soc, 1) = "83.3"
        /\ FormatF(dod, 1) = "16.7"
        /\ current_a = Rat(1, 2)
        /\ impedance = Rat(24, 1)
        /\ lcdOps[2].text = "Battery:Healthy"
        /\ lcdOps[4].text = "V:12.00 I:500mA"

C10_Witness ==
    /\ pc = "advance"
    /\ page = 0
    /\ Len(reads) = 5
    /\ reads[1].value = Rat(12, 1)
    /\ reads[2].value = Rat(500, 1)
    /\ reads[5].value = Rat(500, 1)
    /\ impedance = Rat(24, 1)
    /\ lcdOps[4].text = "V:12.00 I:500mA"

ReadsOf(q) == { i \in DOMAIN reads : reads[i].sensor = q }
Quantities == {"bus_voltage", "current", "temperature", "relative_humidity"}

(***************************************************************************)
(* C11: in every cycle each sensor quantity is read exactly once and all   *)
(* sensor reads precede the first display operation (the clear), so page 0 *)
(* shows the current sample that impedance was computed from, and a sensor *)
(* read failure never follows a display operation of the same cycle.       *)
(***************************************************************************)
C11_SingleSample ==
    /\ \A q \in Quantities : Cardinality(ReadsOf(q)) <= 1
    /\ (pc \in TryPcs /\ lcdOps # <<>>) =>
           \A q \in Quantities : Cardinality(ReadsOf(q)) = 1
    /\ (pc = "advance" /\ page = 0) =>
           lcdOps[4].text
               = Line2(0, bus_v, reads[2].value, temp, hum, soc, dod, impedance)
    /\ fault = "SensorReadError" => lcdOps = <<>>

(***************************************************************************)
(* C12: when a display operation of a cycle fails, it is not retried and   *)
(* no further cycle runs; the failure path attempts the "Error Occurred"   *)
(* notification and the process then terminates with a failure status,     *)
(* whether or not the notification itself fails.  Stated for the runs in   *)
(* which no interrupt cuts the handler short.                              *)
(***************************************************************************)
C12_DisplayFailureExit ==
    (/\ fault = "DisplayWriteError"
     /\ pc = "exit"
     /\ exit # "uncaught_interrupt") =>
        /\ Len(final) >= 1 => final[1].op = "clear"
        /\ ErrWrites <= 1
        /\ StopWrites = 0
        /\ ExitStatus(exit) # 0

OpNames(ops) == [i \in DOMAIN ops |-> ops[i].op]
IsPrefix(a, b) == Len(a) <= Len(b) /\ \A i \in DOMAIN a : a[i] = b[i]
CycleOps == <<"clear", "write_string", "crlf", "write_string">>

(***************************************************************************)
(* C13: the page counter is always in {0,1,2,3}; it changes only by the    *)
(* step page -> (page + 1) mod 4, taken exactly once per cycle, at line    *)
(* 66, after both lines of the cycle have been written; a cycle cut short  *)
(* by a sensor failure, a display failure or an interrupt leaves it        *)
(* unchanged.                                                              *)
(***************************************************************************)
C13_PageCounter ==
    /\ [](page \in 0..3)
    /\ [][page' # page =>
            /\ page' = (page + 1) % 4
            /\ pc = "advance" /\ pc' = "sleep"
            /\ Cardinality(Texts(lcdOps)) = 2]_vars
    /\ [][(pc = "advance" /\ pc' = "sleep") =>
            (page' # page /\ cycles' = cycles + 1)]_vars
    /\ [][pc' \in HandlerPcs \cup {"exit"} => page' = page]_vars

C13_Witness ==
    /\ fault = "DisplayWriteError"
    /\ page = 3
    /\ cycles = 3
    /\ Len(lcdOps) = 3

(***************************************************************************)
(* C14: every cycle that completes issues its display operations in the    *)
(* order clear, line 1, line break, line 2, then advances the page, then   *)
(* sleeps; the display is cleared exactly once per cycle and never between *)
(* the two lines, and no sensor read or display write happens during the   *)
(* sleep.                                                                  *)
(***************************************************************************)
C14_CycleOrder ==
    /\ [](pc \in {"advance", "sleep"} => OpNames(lcdOps) = CycleOps)
    /\ [](pc \in TryPcs => IsPrefix(OpNames(lcdOps), CycleOps))
    /\ [][pc = "line2" => pc' \in {"advance"} \cup HandlerPcs]_vars
    /\ [][pc = "advance" => pc' \in {"sleep"} \cup HandlerPcs]_vars
    /\ [][pc = "sleep" =>
            \/ reads' = reads /\ lcdOps' = lcdOps /\ page' = page
            \/ pc' = "read_bus_v" /\ reads' = <<>> /\ lcdOps' = <<>>]_vars

C14_Witness ==
    /\ pc = "sleep"
    /\ page = 3
    /\ OpNames(lcdOps) = CycleOps
    /\ lcdOps[4].page = 2

(***************************************************************************)
(* C15: in any run at most one terminal message is written ("System        *)
(* Stopped" and "Error Occurred" never both appear), and once an except    *)
(* clause has been entered no sensor is read, no page is written and the   *)
(* page counter does not change, also when an interrupt arrives while the  *)
(* error clause runs or a display call raises in the interrupt clause.     *)
(***************************************************************************)
C15_OneTerminalMessage ==
    /\ [](StopWrites + ErrWrites <= 1)
    /\ [](StopWrites = 1 => fault = "KeyboardInterrupt")
    /\ [](ErrWrites = 1 => fault \notin {"none", "KeyboardInterrupt"})
    /\ [][fault # "none" =>
            UNCHANGED <<reads, lcdOps, page, cycles, fault>>]_vars

\* an interrupt arrived while the error clause was running, after its write
C15_Witness ==
    /\ fault = "SensorReadError"
    /\ exit = "uncaught_interrupt"
    /\ ErrWrites = 1
    /\ StopWrites = 0

(***************************************************************************)
(* C16: in a run in which no collaborator call fails and no interrupt      *)
(* arrives the loop never terminates and, the loop steps being weakly      *)
(* fair, each of the pages 0,1,2,3 is displayed infinitely often: every    *)
(* completed cycle moves on to the next page modulo 4, so a page is shown  *)
(* again within 4 cycles.                                                  *)
(***************************************************************************)
Shown(p) ==
    /\ pc = "advance"
    /\ page = p
    /\ OpNames(lcdOps) = CycleOps
    /\ lcdOps[2].text = Line1(p, status)
    /\ lcdOps[4].page = p

C16_PagesForever ==
    /\ [](exit = "running" /\ pc \in TryPcs /\ fault = "none")
    /\ \A p \in 0..3 : []<>Shown(p)
    /\ []<>(pc = "sleep")
    /\ [][(pc = "advance" /\ pc' = "sleep") => page' = (page + 1) % 4]_vars

\* page 3 has been shown and the counter is back at page 0
C16_Witness ==
    /\ pc = "sleep"
    /\ page = 0
    /\ OpNames(lcdOps) = CycleOps
    /\ lcdOps[4].page = 3

====
